---- MODULE Spec2Model ----
(***************************************************************************)
(* Model of the inventory edge function (purchase / restock), the sweets   *)
(* edge function's PUT, and the storage constraints of the sweets and      *)
(* purchases tables.                                                       *)
(*                                                                         *)
(* Every handler is an async function: the code between two awaited store  *)
(* round trips is one atomic action, and the handlers of concurrent        *)
(* requests interleave at the awaits.                                      *)
(*                                                                         *)
(* Numbers of a request body are JSON numbers and need not be integers.    *)
(* A request quantity is carried as TWICE its numeric value, so that 3     *)
(* stands for 1.5 and 4 for 2.  Stored quantities are of SQL type integer  *)
(* and are carried as they are.  Prices are carried in cents.              *)
(***************************************************************************)
EXTENDS Integers, Sequences, FiniteSets, TLC

\* ------------------------------------------------------------------ bounds
MaxCalls == 2
MaxStock == 1

Calls == 1..MaxCalls

\* ------------------------------------------------------- request universes
Products == {"p1", "p2"}
UnknownId == "p9"
NoId == ""
\* the ids requests carry: a product, an id with no row, none
SweetIds == {"p1", UnknownId, NoId}

NoHeader == "no-header"
BadToken == "bad-token"
Customers == {"alice"}
Admins == {"admin"}
Users == Customers \cup Admins
\* signed-up users for whom no user_profiles row was written
Strangers == {"bob"}
\* what an Authorization header can be: absent, a token of no user, a user's token
Auths == Users \cup Strangers \cup {NoHeader, BadToken}
\* the users a token resolves to (auth.uid() of a signed-in client)
SignedIn == Users \cup Strangers
\* purchases are placed with a customer's token or with none that resolves
Buyers == Customers \cup {NoHeader, BadToken}

\* user_profiles rows: is_admin per user id
user_profiles == [u \in Users |-> [is_admin |-> (u \in Admins)]]

Prices == {299}

\* twice the numeric value: -2 is -1, 0 is 0, 2 is 1, 3 is 1.5
Numbers == {-2, 0, 2, 3}

\* request bodies { sweetId, quantity }; a body may leave quantity out
Bodies == [sweetId : SweetIds, quantity : Numbers] \cup [sweetId : SweetIds]

IsInteger(n2) == n2 % 2 = 0
Units(n2) == n2 \div 2

VARIABLES sweets, purchases, calls, resp, initial, nputs, profiles, reply, card

vars == <<sweets, purchases, calls, resp, initial, nputs, profiles, reply, card>>

\* ---------------------------------------------------------------- storage
\* sweets.quantity integer NOT NULL CHECK (quantity >= 0); n2 is twice the value
QuantityCheck_NoCheck(n2) == IsInteger(n2)
QuantityCheck(n2) == IsInteger(n2) /\ Units(n2) >= 0

\* sweets.price numeric(10,2) NOT NULL CHECK (price >= 0)
PriceCheck(cents) == cents >= 0

\* purchases row constraints: sweet_id REFERENCES sweets, quantity integer
\* CHECK (quantity > 0), total_price CHECK (total_price >= 0)
PurchaseRowCheck(row2) ==
    /\ row2.sweet_id \in DOMAIN sweets
    /\ row2.user_id \in Users
    /\ IsInteger(row2.quantity) /\ Units(row2.quantity) > 0
    /\ row2.total_price >= 0

\* ------------------------------------------------------------- responses
NoResponse == [status |-> 0]
MissingAuthorization == [status |-> 401, error |-> "Missing authorization header"]
InvalidToken == [status |-> 401, error |-> "Invalid authorization token"]
InvalidRequest == [status |-> 400, error |-> "Invalid sweetId or quantity"]
NotFound == [status |-> 404, error |-> "Sweet not found"]
InsufficientStock(available) ==
    [status |-> 400, error |-> "Insufficient stock", available |-> available]
FailedUpdate == [status |-> 500, error |-> "Failed to update inventory"]
FailedPurchase == [status |-> 500, error |-> "Failed to record purchase"]
PurchaseSuccessful(purchase, remaining2) ==
    [status |-> 200, message |-> "Purchase successful",
     purchase |-> purchase, remainingStock |-> Units(remaining2)]
Forbidden == [status |-> 403, error |-> "Admin access required"]
FailedRestock == [status |-> 500, error |-> "Failed to restock"]
RestockSuccessful(newQuantity2) ==
    [status |-> 200, message |-> "Restock successful",
     newQuantity |-> Units(newQuantity2)]

\* ------------------------------------------------------------ pure helpers
\* !sweetId || !quantity || quantity <= 0
InvalidBody(body) ==
    \/ body.sweetId = NoId
    \/ "quantity" \notin DOMAIN body
    \/ body.quantity = 0
    \/ body.quantity <= 0

\* sweet.quantity < quantity
StockTooLow_OffByOne(s, quantity) == 2 * (s.quantity + 1) < quantity
StockTooLow(s, quantity) == 2 * s.quantity < quantity

\* sweet.price * quantity, stored into numeric(10,2): cents
TotalPrice(s, quantity) == (s.price * quantity) \div 2

\* !profile?.is_admin
NotAdmin_ProfileOptional(user) ==
    user \in DOMAIN profiles /\ ~profiles[user].is_admin
NotAdmin(user) == ~(user \in DOMAIN profiles /\ profiles[user].is_admin)

NoSweet == [quantity |-> 0, price |-> 0, found |-> FALSE]
Snapshot(id) == [quantity |-> sweets[id].quantity, price |-> sweets[id].price,
                 found |-> TRUE]

StoredQuantity(id) == IF id \in DOMAIN sweets THEN sweets[id].quantity ELSE 0

\* Request that takes the user id from somewhere else than the token
Request_OnBehalf(op, auth, body) ==
    IF "quantity" \in DOMAIN body
    THEN [op |-> op, auth |-> "admin", sweetId |-> body.sweetId, quantity |-> body.quantity]
    ELSE [op |-> op, auth |-> "admin", sweetId |-> body.sweetId]

\* the request as the handler holds it: operation, token, parsed body
Request(op, auth, body) ==
    IF "quantity" \in DOMAIN body
    THEN [op |-> op, auth |-> auth, sweetId |-> body.sweetId, quantity |-> body.quantity]
    ELSE [op |-> op, auth |-> auth, sweetId |-> body.sweetId]

NoRequest == [op |-> "none", auth |-> NoHeader, sweetId |-> NoId]

\* a handler's state: where it stands, its request, the row it read (the
\* local 'sweet'), and the stored quantity its stock write found (history)
Idle == [pc |-> "idle", req |-> NoRequest, sweet |-> NoSweet, before |-> 0]
Returned == [pc |-> "done", req |-> NoRequest, sweet |-> NoSweet, before |-> 0]

\* return new Response(...): the handler ends and its locals with it
Finish(c, r) ==
    /\ calls' = [calls EXCEPT ![c] = Returned]
    /\ resp' = [resp EXCEPT ![c] = r]

\* the handler goes on to its next store round trip
Goto(c, h) ==
    /\ calls' = [calls EXCEPT ![c] = h]
    /\ UNCHANGED resp

\* requests are taken up in the order of their numbers
Arrives(c) ==
    /\ calls[c].pc = "idle"
    /\ \A d \in Calls : d < c => calls[d].pc # "idle"

\* ------------------------------------------------------------- SweetCard
\* a run of handlePurchase: where it stands and the 'quantity' and
\* 'sweet.quantity' of the render whose handler was clicked
NoRun == [pc |-> "none", quantity |-> 0, shown |-> 0]

\* the card of product p1 as mounted: useState(1), useState(false),
\* useState(null), the sweet prop, pending setTimeout callbacks, runs of
\* handlePurchase started, requests sent
MountedCard(shown) ==
    [quantity |-> 1, purchasing |-> FALSE, message |-> "none", shown |-> shown,
     timers |-> 0, started |-> 0, sent |-> 0, runs |-> [k \in Calls |-> NoRun]]

\* -------------------------------------------------------------------- Init
Init ==
    /\ sweets \in [Products -> [quantity : 0..MaxStock, price : Prices]]
    /\ sweets["p2"].quantity = MaxStock
    /\ purchases = <<>>
    /\ calls = [c \in Calls |-> Idle]
    /\ resp = [c \in Calls |-> NoResponse]
    /\ initial = sweets
    /\ nputs = 0
    /\ profiles = user_profiles
    /\ reply = NoResponse
    /\ card = MountedCard(sweets["p1"].quantity)

\* ------------------------------------------------- inventory: /purchase
\* token check and body validation, up to the first store round trip
PurchaseRequest(c, auth, body) ==
    /\ Arrives(c)
    /\ IF auth = NoHeader THEN Finish(c, MissingAuthorization)
       ELSE IF auth = BadToken THEN Finish(c, InvalidToken)
       ELSE IF InvalidBody(body) THEN Finish(c, InvalidRequest)
       ELSE Goto(c, [calls[c] EXCEPT !.pc = "read",
                                     !.req = Request("purchase", auth, body)])
    /\ UNCHANGED <<sweets, purchases, initial, nputs, profiles, reply, card>>

\* PurchaseRead with the stock check made after the shelf is emptied
PurchaseRead_SellsOut(c) ==
    /\ calls[c].pc = "read"
    /\ \E sweetError \in BOOLEAN :
         LET id == calls[c].req.sweetId
             found == id \in DOMAIN sweets /\ ~sweetError
         IN IF ~found
            THEN Finish(c, NotFound) /\ UNCHANGED sweets
            ELSE IF StockTooLow(Snapshot(id), calls[c].req.quantity)
            THEN /\ Finish(c, InsufficientStock(Snapshot(id).quantity))
                 /\ sweets' = [sweets EXCEPT ![id].quantity = 0]
            ELSE /\ Goto(c, [calls[c] EXCEPT !.pc = "update", !.sweet = Snapshot(id)])
                 /\ UNCHANGED sweets
    /\ UNCHANGED <<purchases, initial, nputs, profiles, reply, card>>

\* select('*').eq('id', sweetId).single(), then the not-found and stock checks
PurchaseRead(c) ==
    /\ calls[c].pc = "read"
    /\ \E sweetError \in BOOLEAN :
         LET id == calls[c].req.sweetId
             found == id \in DOMAIN sweets /\ ~sweetError
         IN IF ~found
            THEN Finish(c, NotFound)
            ELSE IF StockTooLow(Snapshot(id), calls[c].req.quantity)
            THEN Finish(c, InsufficientStock(Snapshot(id).quantity))
            ELSE Goto(c, [calls[c] EXCEPT !.pc = "update", !.sweet = Snapshot(id)])
    /\ UNCHANGED <<sweets, purchases, initial, nputs, profiles, reply, card>>

\* PurchaseUpdate that sends a failed write to the compensating branch
PurchaseUpdate_Compensates(c) ==
    /\ calls[c].pc = "update"
    /\ \E storeFails \in BOOLEAN :
         LET id == calls[c].req.sweetId
             new2 == 2 * calls[c].sweet.quantity - calls[c].req.quantity
             updateError == storeFails \/ (id \in DOMAIN sweets /\ ~QuantityCheck(new2))
             written == ~updateError /\ id \in DOMAIN sweets
         IN /\ sweets' = IF written
                         THEN [sweets EXCEPT ![id].quantity = Units(new2)]
                         ELSE sweets
            /\ IF updateError
               THEN Goto(c, [calls[c] EXCEPT !.pc = "compensate",
                                             !.before = StoredQuantity(id)])
               ELSE Goto(c, [calls[c] EXCEPT !.pc = "insert",
                                             !.before = StoredQuantity(id)])
    /\ UNCHANGED <<purchases, initial, nputs, profiles, reply, card>>

\* PurchaseUpdate that goes on to the insert whatever the write returned
PurchaseUpdate_IgnoresError(c) ==
    /\ calls[c].pc = "update"
    /\ \E storeFails \in BOOLEAN :
         LET id == calls[c].req.sweetId
             new2 == 2 * calls[c].sweet.quantity - calls[c].req.quantity
             updateError == storeFails \/ (id \in DOMAIN sweets /\ ~QuantityCheck(new2))
             written == ~updateError /\ id \in DOMAIN sweets
         IN /\ sweets' = IF written
                         THEN [sweets EXCEPT ![id].quantity = Units(new2)]
                         ELSE sweets
            /\ Goto(c, [calls[c] EXCEPT !.pc = "insert",
                                        !.before = StoredQuantity(id)])
    /\ UNCHANGED <<purchases, initial, nputs, profiles, reply, card>>

\* update({ quantity: sweet.quantity - quantity }).eq('id', sweetId)
PurchaseUpdate(c) ==
    /\ calls[c].pc = "update"
    /\ \E storeFails \in BOOLEAN :
         LET id == calls[c].req.sweetId
             new2 == 2 * calls[c].sweet.quantity - calls[c].req.quantity
             updateError == storeFails \/ (id \in DOMAIN sweets /\ ~QuantityCheck(new2))
             written == ~updateError /\ id \in DOMAIN sweets
         IN /\ sweets' = IF written
                         THEN [sweets EXCEPT ![id].quantity = Units(new2)]
                         ELSE sweets
            /\ IF updateError
               THEN Finish(c, FailedUpdate)
               ELSE Goto(c, [calls[c] EXCEPT !.pc = "insert",
                                             !.before = StoredQuantity(id)])
    /\ UNCHANGED <<purchases, initial, nputs, profiles, reply, card>>

\* PurchaseInsert that takes a failed round trip for a missing row although
\* the row was stored
PurchaseInsert_KeepsRow(c) ==
    /\ calls[c].pc = "insert"
    /\ \E storeFails \in BOOLEAN :
         LET row2 == [user_id |-> calls[c].req.auth,
                      sweet_id |-> calls[c].req.sweetId,
                      quantity |-> calls[c].req.quantity,
                      total_price |-> TotalPrice(calls[c].sweet, calls[c].req.quantity)]
             purchase == [id |-> Len(purchases) + 1, user_id |-> row2.user_id,
                          sweet_id |-> row2.sweet_id,
                          quantity |-> Units(row2.quantity),
                          total_price |-> row2.total_price]
         IN IF ~PurchaseRowCheck(row2)
            THEN /\ Goto(c, [calls[c] EXCEPT !.pc = "compensate"])
                 /\ UNCHANGED purchases
            ELSE /\ purchases' = Append(purchases, purchase)
                 /\ IF storeFails
                    THEN Goto(c, [calls[c] EXCEPT !.pc = "compensate"])
                    ELSE Finish(c, PurchaseSuccessful(purchase,
                           2 * calls[c].sweet.quantity - calls[c].req.quantity))
    /\ UNCHANGED <<sweets, initial, nputs, profiles, reply, card>>

\* insert([{user_id, sweet_id, quantity, total_price}]).select().single();
\* the insert is one statement of the store: an error leaves no row
PurchaseInsert(c) ==
    /\ calls[c].pc = "insert"
    /\ \E storeFails \in BOOLEAN :
         LET row2 == [user_id |-> calls[c].req.auth,
                      sweet_id |-> calls[c].req.sweetId,
                      quantity |-> calls[c].req.quantity,
                      total_price |-> TotalPrice(calls[c].sweet, calls[c].req.quantity)]
             purchaseError == storeFails \/ ~PurchaseRowCheck(row2)
             purchase == [id |-> Len(purchases) + 1, user_id |-> row2.user_id,
                          sweet_id |-> row2.sweet_id,
                          quantity |-> Units(row2.quantity),
                          total_price |-> row2.total_price]
         IN IF purchaseError
            THEN /\ Goto(c, [calls[c] EXCEPT !.pc = "compensate"])
                 /\ UNCHANGED purchases
            ELSE /\ purchases' = Append(purchases, purchase)
                 /\ Finish(c, PurchaseSuccessful(purchase,
                        2 * calls[c].sweet.quantity - calls[c].req.quantity))
    /\ UNCHANGED <<sweets, initial, nputs, profiles, reply, card>>

\* PurchaseCompensate whose update has no filter on the id
PurchaseCompensate_AllRows(c) ==
    /\ calls[c].pc = "compensate"
    /\ \E storeFails \in BOOLEAN :
         LET written == ~storeFails /\ QuantityCheck(2 * calls[c].sweet.quantity)
         IN /\ sweets' = IF written
                         THEN [id \in DOMAIN sweets |->
                                 [sweets[id] EXCEPT !.quantity = calls[c].sweet.quantity]]
                         ELSE sweets
            /\ Finish(c, FailedPurchase)
    /\ UNCHANGED <<purchases, initial, nputs, profiles, reply, card>>

\* update({ quantity: sweet.quantity }).eq('id', sweetId); the result of the
\* write is not looked at
PurchaseCompensate(c) ==
    /\ calls[c].pc = "compensate"
    /\ \E storeFails \in BOOLEAN :
         LET id == calls[c].req.sweetId
             written == ~storeFails /\ id \in DOMAIN sweets
                        /\ QuantityCheck(2 * calls[c].sweet.quantity)
         IN /\ sweets' = IF written
                         THEN [sweets EXCEPT ![id].quantity = calls[c].sweet.quantity]
                         ELSE sweets
            /\ Finish(c, FailedPurchase)
    /\ UNCHANGED <<purchases, initial, nputs, profiles, reply, card>>

\* -------------------------------------------------- inventory: /restock
\* RestockRequest that looks for the header but does not resolve the token
RestockRequest_TokenUnchecked(c, auth, body) ==
    /\ Arrives(c)
    /\ IF auth = NoHeader THEN Finish(c, MissingAuthorization)
       ELSE IF NotAdmin(auth) THEN Finish(c, Forbidden)
       ELSE IF InvalidBody(body) THEN Finish(c, InvalidRequest)
       ELSE Goto(c, [calls[c] EXCEPT !.pc = "rread",
                                     !.req = Request("restock", auth, body)])
    /\ UNCHANGED <<sweets, purchases, initial, nputs, profiles, reply, card>>

\* token check, is_admin lookup and body validation
RestockRequest(c, auth, body) ==
    /\ Arrives(c)
    /\ IF auth = NoHeader THEN Finish(c, MissingAuthorization)
       ELSE IF auth = BadToken THEN Finish(c, InvalidToken)
       ELSE IF NotAdmin(auth) THEN Finish(c, Forbidden)
       ELSE IF InvalidBody(body) THEN Finish(c, InvalidRequest)
       ELSE Goto(c, [calls[c] EXCEPT !.pc = "rread",
                                     !.req = Request("restock", auth, body)])
    /\ UNCHANGED <<sweets, purchases, initial, nputs, profiles, reply, card>>

\* select('quantity').eq('id', sweetId).single()
RestockRead(c) ==
    /\ calls[c].pc = "rread"
    /\ \E sweetError \in BOOLEAN :
         LET id == calls[c].req.sweetId
             found == id \in DOMAIN sweets /\ ~sweetError
         IN IF ~found
            THEN Finish(c, NotFound)
            ELSE Goto(c, [calls[c] EXCEPT !.pc = "rupdate", !.sweet = Snapshot(id)])
    /\ UNCHANGED <<sweets, purchases, initial, nputs, profiles, reply, card>>

\* RestockUpdate that reads the row again after a failed write
RestockUpdate_Retries(c) ==
    /\ calls[c].pc = "rupdate"
    /\ \E storeFails \in BOOLEAN :
         LET id == calls[c].req.sweetId
             newQuantity2 == 2 * calls[c].sweet.quantity + calls[c].req.quantity
             updateError == storeFails \/ id \notin DOMAIN sweets
                            \/ ~QuantityCheck(newQuantity2)
         IN IF updateError
            THEN /\ Goto(c, [calls[c] EXCEPT !.pc = "rread", !.sweet = NoSweet])
                 /\ UNCHANGED sweets
            ELSE /\ sweets' = [sweets EXCEPT ![id].quantity = Units(newQuantity2)]
                 /\ Finish(c, RestockSuccessful(newQuantity2))
    /\ UNCHANGED <<purchases, initial, nputs, profiles, reply, card>>

\* update({ quantity: newQuantity }).eq('id', sweetId).select().single()
RestockUpdate(c) ==
    /\ calls[c].pc = "rupdate"
    /\ \E storeFails \in BOOLEAN :
         LET id == calls[c].req.sweetId
             newQuantity2 == 2 * calls[c].sweet.quantity + calls[c].req.quantity
             updateError == storeFails \/ id \notin DOMAIN sweets
                            \/ ~QuantityCheck(newQuantity2)
         IN /\ sweets' = IF updateError THEN sweets
                         ELSE [sweets EXCEPT ![id].quantity = Units(newQuantity2)]
            /\ Finish(c, IF updateError THEN FailedRestock
                         ELSE RestockSuccessful(newQuantity2))
    /\ UNCHANGED <<purchases, initial, nputs, profiles, reply, card>>

\* -------------------------------------------------------- sweets: PUT
\* SweetsPut that carries a new price into the totals of the product's records
SweetsPut_Reprices(auth, id, quantity, price) ==
    /\ auth \in Users /\ ~NotAdmin(auth)
    /\ id \in DOMAIN sweets
    /\ nputs' = 1
    /\ sweets' = IF QuantityCheck(quantity) /\ PriceCheck(price)
                 THEN [sweets EXCEPT ![id] = [quantity |-> Units(quantity),
                                              price |-> price]]
                 ELSE sweets
    /\ purchases' = [i \in 1..Len(purchases) |->
                       IF purchases[i].sweet_id = id
                       THEN [purchases[i] EXCEPT !.total_price = price * purchases[i].quantity]
                       ELSE purchases[i]]
    /\ UNCHANGED <<calls, resp, initial, profiles, reply, card>>

\* update(sweetData).eq('id', sweetId) by an administrator; a row the
\* constraints reject is left as it was
SweetsPut(auth, id, quantity, price) ==
    /\ auth \in Users /\ ~NotAdmin(auth)
    /\ id \in DOMAIN sweets
    /\ nputs' = 1
    /\ sweets' = IF QuantityCheck(quantity) /\ PriceCheck(price)
                 THEN [sweets EXCEPT ![id] = [quantity |-> Units(quantity),
                                              price |-> price]]
                 ELSE sweets
    /\ UNCHANGED <<purchases, calls, resp, initial, profiles, reply, card>>

\* ------------------------------------------------- sweets: the handler
\* ids gen_random_uuid() can give a created row
NewIds == {"p3"}
Methods == {"GET", "POST", "PUT", "DELETE", "PATCH"}
\* request bodies of POST and PUT: name and category stand or fall together
\* (field 'name'), quantity is twice its value, price is in cents; a body
\* that is not JSON has none of them
NotJson == [malformed |-> TRUE]
SweetData ==
    [name : {"Barfi"}, quantity : {-2, 2}, price : Prices]
      \cup [name : {"Barfi"}, price : Prices]
      \cup {NotJson}

MissingFields ==
    [status |-> 400, error |-> "Missing required fields: name, category, price, quantity"]
StoreError == [status |-> 400, error |-> "error.message"]
Thrown == [status |-> 500, error |-> "error.message"]
Listed(rows) == [status |-> 200, rows |-> rows]
Created(id) == [status |-> 201, id |-> id]
Updated(id) == [status |-> 200, id |-> id]
Deleted == [status |-> 200, message |-> "Sweet deleted successfully"]
MethodNotAllowed == [status |-> 405, error |-> "Method not allowed"]

\* !sweetData.name || !sweetData.category || price === undefined || quantity === undefined
MissingRequired(data) ==
    \/ "name" \notin DOMAIN data
    \/ "price" \notin DOMAIN data
    \/ "quantity" \notin DOMAIN data

\* the row an update(sweetData) makes of row r: the columns the body names
Patched(r, data) ==
    [quantity |-> IF "quantity" \in DOMAIN data THEN data.quantity ELSE 2 * r.quantity,
     price |-> IF "price" \in DOMAIN data THEN data.price ELSE r.price]

\* sweets.quantity and sweets.price constraints on a row (quantity doubled)
RowCheck(r2) == QuantityCheck(r2.quantity) /\ PriceCheck(r2.price)

\* purchases.sweet_id REFERENCES sweets(id) ON DELETE RESTRICT
Referenced_Never(id) == FALSE
Referenced(id) == \E i \in 1..Len(purchases) : purchases[i].sweet_id = id

\* profile?.is_admin || false
IsAdmin_Anyone(user) == TRUE
IsAdmin(user) == ~NotAdmin(user)

\* one request to the sweets function, from the token check to the response;
\* its single table statement is the only store write, so the handler is
\* one step (the is_admin lookup before it reads a table no step of this
\* specification writes)
SweetsRequest(auth, method, id, data) ==
    /\ \E storeFails \in BOOLEAN :
         LET post == method = "POST" /\ IsAdmin(auth) /\ data # NotJson
                     /\ ~MissingRequired(data)
             put == method = "PUT" /\ IsAdmin(auth) /\ data # NotJson
             delete == method = "DELETE" /\ IsAdmin(auth)
             fresh == CHOOSE n \in NewIds : n \notin DOMAIN sweets
             inserted == post /\ ~storeFails /\ RowCheck(data)
             updated == put /\ ~storeFails /\ id \in DOMAIN sweets
                        /\ RowCheck(Patched(sweets[id], data))
             deleteError == storeFails \/ Referenced(id)
             deleted == delete /\ ~deleteError /\ id \in DOMAIN sweets
         IN /\ (method = "POST" /\ auth \in SignedIn)
                 => \E n \in NewIds : n \notin DOMAIN sweets
            /\ reply' =
                 IF auth = NoHeader THEN MissingAuthorization
                 ELSE IF auth = BadToken THEN InvalidToken
                 ELSE IF method = "GET"
                      THEN (IF storeFails THEN StoreError ELSE Listed(DOMAIN sweets))
                 ELSE IF method \in {"POST", "PUT", "DELETE"} /\ ~IsAdmin(auth)
                      THEN Forbidden
                 ELSE IF method = "POST"
                      THEN (IF data = NotJson THEN Thrown
                            ELSE IF MissingRequired(data) THEN MissingFields
                            ELSE IF inserted THEN Created(fresh) ELSE StoreError)
                 ELSE IF method = "PUT"
                      THEN (IF data = NotJson THEN Thrown
                            ELSE IF updated THEN Updated(id) ELSE StoreError)
                 ELSE IF method = "DELETE"
                      THEN (IF deleteError THEN StoreError ELSE Deleted)
                 ELSE MethodNotAllowed
            /\ sweets' =
                 IF auth \notin SignedIn THEN sweets
                 ELSE IF inserted
                      THEN [n \in DOMAIN sweets \cup {fresh} |->
                              IF n = fresh
                              THEN [quantity |-> Units(data.quantity), price |-> data.price]
                              ELSE sweets[n]]
                 ELSE IF updated
                      THEN [sweets EXCEPT ![id] =
                              [quantity |-> Units(Patched(sweets[id], data).quantity),
                               price |-> Patched(sweets[id], data).price]]
                 ELSE IF deleted
                      THEN [n \in DOMAIN sweets \ {id} |-> sweets[n]]
                 ELSE sweets
            /\ nputs' = IF auth \in SignedIn /\ put THEN 1 ELSE nputs
    /\ UNCHANGED <<purchases, calls, resp, initial, profiles, card>>

Next ==
    \/ \E c \in Calls, auth \in Buyers, body \in Bodies : PurchaseRequest(c, auth, body)
    \/ \E c \in Calls : PurchaseRead(c)
    \/ \E c \in Calls : PurchaseUpdate(c)
    \/ \E c \in Calls : PurchaseInsert(c)
    \/ \E c \in Calls : PurchaseCompensate(c)
    \/ \E c \in Calls, auth \in Auths, body \in Bodies : RestockRequest(c, auth, body)
    \/ \E c \in Calls : RestockRead(c)
    \/ \E c \in Calls : RestockUpdate(c)
    \/ \E auth \in Admins, id \in {"p1"}, quantity \in Numbers, price \in Prices :
         SweetsPut(auth, id, quantity, price)

Spec == Init /\ [][Next]_vars

\* ------------------------------------------ the inventory function alone
\* every request the inventory function can get, and no other writer
NextInventory ==
    \/ \E c \in Calls, auth \in Buyers, body \in Bodies : PurchaseRequest(c, auth, body)
    \/ \E c \in Calls : PurchaseRead(c)
    \/ \E c \in Calls : PurchaseUpdate(c)
    \/ \E c \in Calls : PurchaseInsert(c)
    \/ \E c \in Calls : PurchaseCompensate(c)
    \/ \E c \in Calls, auth \in Auths, body \in Bodies : RestockRequest(c, auth, body)
    \/ \E c \in Calls : RestockRead(c)
    \/ \E c \in Calls : RestockUpdate(c)

SpecInventory == Init /\ [][NextInventory]_vars

\* ------------------------------------- purchase and restock calls alone
\* well-formed requests for one or two units of a product, from a customer's
\* purchases and an administrator's restocks
UnitBodies == [sweetId : Products, quantity : {2, 4}]

NextCalls ==
    \/ \E c \in Calls, auth \in Customers, body \in UnitBodies :
         PurchaseRequest(c, auth, body)
    \/ \E c \in Calls : PurchaseRead(c)
    \/ \E c \in Calls : PurchaseUpdate(c)
    \/ \E c \in Calls : PurchaseInsert(c)
    \/ \E c \in Calls : PurchaseCompensate(c)
    \/ \E c \in Calls, auth \in Admins, body \in UnitBodies :
         RestockRequest(c, auth, body)
    \/ \E c \in Calls : RestockRead(c)
    \/ \E c \in Calls : RestockUpdate(c)

SpecCalls == Init /\ [][NextCalls]_vars

\* ---------------------------- calls on a product whose price is edited
\* the prices an administrator's PUT sets
NewPrices == {299, 349}
\* requests for one unit of p1
OneUnit == [sweetId : {"p1"}, quantity : {2}]

NextPrices ==
    \/ \E c \in Calls, auth \in Customers, body \in OneUnit :
         PurchaseRequest(c, auth, body)
    \/ \E c \in Calls : PurchaseRead(c)
    \/ \E c \in Calls : PurchaseUpdate(c)
    \/ \E c \in Calls : PurchaseInsert(c)
    \/ \E c \in Calls : PurchaseCompensate(c)
    \/ \E c \in Calls, auth \in Admins, body \in OneUnit :
         RestockRequest(c, auth, body)
    \/ \E c \in Calls : RestockRead(c)
    \/ \E c \in Calls : RestockUpdate(c)
    \/ \E auth \in Admins, price \in NewPrices :
         SweetsPut(auth, "p1", 2 * sweets["p1"].quantity, price)

SpecPrices == Init /\ [][NextPrices]_vars

\* --------------------------------------------- user_profiles row policies
\* UPDATE user_profiles SET is_admin = ... WHERE id = ... as user uid, under
\* policy "Users can update their own profile": USING (auth.uid() = id)
\* selects the rows, WITH CHECK (auth.uid() = id) admits the new row
ProfileUpdate(uid, id, is_admin) ==
    /\ profiles' = IF id \in DOMAIN profiles /\ uid = id
                   THEN [profiles EXCEPT ![id].is_admin = is_admin]
                   ELSE profiles
    /\ UNCHANGED <<sweets, purchases, calls, resp, initial, nputs, reply, card>>

\* INSERT INTO user_profiles (id, is_admin) as user uid, under policy "Users
\* can insert their own profile": WITH CHECK (auth.uid() = id); id is the
\* primary key
ProfileInsert(uid, id, is_admin) ==
    /\ profiles' = IF id \notin DOMAIN profiles /\ uid = id
                   THEN [u \in DOMAIN profiles \cup {id} |->
                           IF u = id THEN [is_admin |-> is_admin] ELSE profiles[u]]
                   ELSE profiles
    /\ UNCHANGED <<sweets, purchases, calls, resp, initial, nputs, reply, card>>

\* profile writes by signed-in users next to restock requests of one unit
NextProfiles ==
    \/ \E uid \in SignedIn, id \in SignedIn, is_admin \in BOOLEAN :
         ProfileUpdate(uid, id, is_admin)
    \/ \E uid \in SignedIn, id \in SignedIn, is_admin \in BOOLEAN :
         ProfileInsert(uid, id, is_admin)
    \/ \E c \in Calls, auth \in SignedIn, body \in OneUnit :
         RestockRequest(c, auth, body)
    \/ \E c \in Calls : RestockRead(c)
    \/ \E c \in Calls : RestockUpdate(c)

SpecProfiles == Init /\ [][NextProfiles]_vars

\* --------------------------------------------- the sweets function alone
\* every request the sweets function can get for p1 or an id with no row
NextSweets ==
    \E auth \in Auths, method \in Methods, id \in {"p1", UnknownId}, data \in SweetData :
      SweetsRequest(auth, method, id, data)

SpecSweets == Init /\ [][NextSweets]_vars

\* -------------------------------------- deletions next to purchases
\* an administrator's DELETE of p1 next to customers' purchases of one unit
\* of p1
NextCatalog ==
    \/ \E auth \in Admins : SweetsRequest(auth, "DELETE", "p1", NotJson)
    \/ \E c \in Calls, auth \in Customers, body \in OneUnit :
         PurchaseRequest(c, auth, body)
    \/ \E c \in Calls : PurchaseRead(c)
    \/ \E c \in Calls : PurchaseUpdate(c)
    \/ \E c \in Calls : PurchaseInsert(c)
    \/ \E c \in Calls : PurchaseCompensate(c)

SpecCatalog == Init /\ [][NextCatalog]_vars

\* ------------------------------------------------- SweetCard: handlers
\* what the quantity input can hold: nothing parseInt reads a number from,
\* or a number (twice its value: 3 is 1.5)
Typed ==
    {[text |-> "empty"]}
      \cup [text : {"number"}, twice : {-2, 0, 3} \cup {2 * n : n \in 1..(MaxStock + 1)}]

\* Math.max(1, parseInt(e.target.value) || 1): parseInt drops the fraction,
\* NaN and 0 are falsy
Clamped(t) ==
    IF t.text = "empty" THEN 1
    ELSE LET parsed == IF t.twice >= 0 THEN t.twice \div 2 ELSE -((-t.twice) \div 2)
         IN IF parsed = 0 THEN 1
            ELSE IF parsed > 1 THEN parsed ELSE 1

\* sweet.quantity === 0
IsOutOfStock == card.shown = 0

\* the runs of handlePurchase that are past setPurchasing(true) and not yet
\* through their finally
InFlight == {k \in Calls : card.runs[k].pc \in {"session", "fetch"}}

\* onChange of the quantity input (disabled={isOutOfStock})
CardChange(t) ==
    /\ ~IsOutOfStock
    /\ card' = [card EXCEPT !.quantity = Clamped(t)]
    /\ UNCHANGED <<sweets, purchases, calls, resp, initial, nputs, profiles, reply>>

\* CardClick without the stock test of handlePurchase
CardClick_Unchecked ==
    /\ ~(IsOutOfStock \/ card.purchasing)
    /\ card.started < MaxCalls
    /\ card' = [card EXCEPT !.purchasing = TRUE, !.message = "none",
                            !.started = card.started + 1,
                            !.runs[card.started + 1] =
                               [pc |-> "session", quantity |-> card.quantity,
                                shown |-> card.shown]]
    /\ UNCHANGED <<sweets, purchases, calls, resp, initial, nputs, profiles, reply>>

\* CardClick on a button that stays enabled while a purchase is processing
CardClick_WhileProcessing ==
    /\ ~IsOutOfStock
    /\ card.started < MaxCalls
    /\ card' = IF card.quantity > card.shown
               THEN [card EXCEPT !.message = "Not enough stock available"]
               ELSE [card EXCEPT !.purchasing = TRUE, !.message = "none",
                                 !.started = card.started + 1,
                                 !.runs[card.started + 1] =
                                    [pc |-> "session", quantity |-> card.quantity,
                                     shown |-> card.shown]]
    /\ UNCHANGED <<sweets, purchases, calls, resp, initial, nputs, profiles, reply>>

\* onClick of the button (disabled={isOutOfStock || purchasing}):
\* handlePurchase up to its first await, with the quantity and sweet of the
\* render the click came from
CardClick ==
    /\ ~(IsOutOfStock \/ card.purchasing)
    /\ card.started < MaxCalls
    /\ card' = IF card.quantity > card.shown
               THEN [card EXCEPT !.message = "Not enough stock available"]
               ELSE [card EXCEPT !.purchasing = TRUE, !.message = "none",
                                 !.started = card.started + 1,
                                 !.runs[card.started + 1] =
                                    [pc |-> "session", quantity |-> card.quantity,
                                     shown |-> card.shown]]
    /\ UNCHANGED <<sweets, purchases, calls, resp, initial, nputs, profiles, reply>>

\* await supabase.auth.getSession() settles: with a session the request is
\* sent; with none, or when it throws, the run ends through catch/finally
CardSession(k, outcome) ==
    /\ card.runs[k].pc = "session"
    /\ card' =
         IF outcome = "session"
         THEN [card EXCEPT !.runs[k].pc = "fetch", !.sent = card.sent + 1]
         ELSE IF outcome = "none"
         THEN [card EXCEPT !.runs[k].pc = "done",
                           !.message = "Please sign in to purchase",
                           !.purchasing = FALSE]
         ELSE [card EXCEPT !.runs[k].pc = "done", !.message = "error.message",
                           !.purchasing = FALSE]
    /\ UNCHANGED <<sweets, purchases, calls, resp, initial, nputs, profiles, reply>>

\* await fetch(...) and await response.json() settle: response.ok, an error
\* response, or a rejected promise; then catch and finally
CardResponse(k, outcome) ==
    /\ card.runs[k].pc = "fetch"
    /\ card' =
         IF outcome = "ok"
         THEN [card EXCEPT !.runs[k].pc = "done", !.message = "Purchase successful!",
                           !.quantity = 1, !.timers = card.timers + 1,
                           !.purchasing = FALSE]
         ELSE [card EXCEPT !.runs[k].pc = "done", !.message = "error.message",
                           !.purchasing = FALSE]
    /\ UNCHANGED <<sweets, purchases, calls, resp, initial, nputs, profiles, reply>>

\* setTimeout(() => setMessage(null), 3000) fires
CardTimer ==
    /\ card.timers > 0
    /\ card' = [card EXCEPT !.message = "none", !.timers = card.timers - 1]
    /\ UNCHANGED <<sweets, purchases, calls, resp, initial, nputs, profiles, reply>>

\* Dashboard.loadSweets hands the card a new sweet prop
CardReload(q) ==
    /\ card' = [card EXCEPT !.shown = q]
    /\ UNCHANGED <<sweets, purchases, calls, resp, initial, nputs, profiles, reply>>

NextCard ==
    \/ \E t \in Typed : CardChange(t)
    \/ CardClick
    \/ \E k \in Calls, outcome \in {"session", "none", "throws"} : CardSession(k, outcome)
    \/ \E k \in Calls, outcome \in {"ok", "error", "throws"} : CardResponse(k, outcome)
    \/ CardTimer
    \/ \E q \in 0..MaxStock : CardReload(q)

SpecCard == Init /\ [][NextCard]_vars

\* every promise a run awaits settles
SpecCardLive ==
    /\ SpecCard
    /\ \A k \in Calls :
         /\ WF_vars(\E outcome \in {"session", "none", "throws"} : CardSession(k, outcome))
         /\ WF_vars(\E outcome \in {"ok", "error", "throws"} : CardResponse(k, outcome))

\* ------------------------------------------------------ step vocabulary
\* handler c takes a step
Steps(c) == calls'[c] # calls[c]
\* handler c returns in this step
ReturnsNow(c) == calls[c].pc # "done" /\ calls'[c].pc = "done"
\* handler c is between two store round trips of a purchase
InPurchase(c) == calls[c].pc \in {"read", "update", "insert", "compensate"}
InRestock(c) == calls[c].pc \in {"rread", "rupdate"}
NoCallInFlight == \A c \in Calls : calls[c].pc \in {"idle", "done"}
StoreUnchanged == sweets' = sweets /\ purchases' = purchases

IsSuccess(r) == r.status = 200 /\ r.message = "Purchase successful"
IsInsufficient(r) == r.status = 400 /\ r.error = "Insufficient stock"
Successes == {c \in Calls : IsSuccess(resp[c])}

\* the stock write of c takes effect in this step
StockWriteTakesEffect(c) ==
    \/ calls[c].pc = "update" /\ calls'[c].pc = "insert"
    \/ calls[c].pc = "rupdate" /\ resp'[c].status = 200

\* a quantity the specification rejects: missing, zero, negative, not an integer
BadQuantity(body) ==
    \/ "quantity" \notin DOMAIN body
    \/ body.quantity <= 0
    \/ ~IsInteger(body.quantity)

\* ------------------------------------------------------------------ claims

\* C1: in every reachable state the stored quantity of every product is >= 0
C1_QuantityNonNegative == \A id \in DOMAIN sweets : sweets[id].quantity >= 0

\* two purchases of the same product have returned success and its shelf is empty
C1_Witness ==
    /\ Cardinality(Successes) >= 2
    /\ \E id \in DOMAIN sweets :
         /\ sweets[id].quantity = 0
         /\ \A c \in Successes : resp[c].purchase.sweet_id = id

\* C2: when every call was a purchase that met no store failure, and those
\* that succeeded bought the whole initial stock N >= 1 of a product that no
\* PUT touched, at most one call succeeded (the others got InsufficientStock)
\* and the stored quantity is N - successes * N
C2_AtMostOneSuccess ==
    \A id \in Products :
      LET N == initial[id].quantity
          S == {c \in Successes : /\ resp[c].purchase.sweet_id = id
                                  /\ resp[c].purchase.quantity = N}
      IN (/\ N >= 1
          /\ nputs = 0
          /\ \A c \in Calls : /\ calls[c].pc = "done"
                              /\ (c \in S \/ IsInsufficient(resp[c])))
         => /\ Cardinality(S) <= 1
            /\ sweets[id].quantity = N - Cardinality(S) * N

\* C3: with purchases and restocks alone at work, a call's stock write (the
\* decrement of a purchase, the increment of a restock) takes effect only if
\* the stored quantity still equals the quantity that call read
C3_ConditionalWrite ==
    [][\A c \in Calls :
         (StockWriteTakesEffect(c) /\ nputs = 0)
         => sweets[calls[c].req.sweetId].quantity = calls[c].sweet.quantity]_vars

\* C4: with purchases and restocks alone at work, a purchase that returns
\* success for q units took the stored quantity
\* from its value right before the stock write to that value minus q, and
\* adds exactly one purchase record whose total_price is the price it read
\* times q
C4_Conservation ==
    [][\A c \in Calls :
         (calls[c].pc = "insert" /\ IsSuccess(resp'[c]) /\ nputs = 0)
         => LET q == Units(calls[c].req.quantity)
            IN /\ calls[c].sweet.quantity - q = calls[c].before - q
               /\ Len(purchases') = Len(purchases) + 1
               /\ purchases'[Len(purchases')].total_price = calls[c].sweet.price * q
               /\ purchases'[Len(purchases')].quantity = q]_vars

\* C5: a purchase whose quantity is zero, negative, missing or not an integer
\* returns InvalidRequest and nothing else, and no step of it changes a
\* stored quantity or the purchase records
C5_BadQuantityRejected ==
    [][\A c \in Calls :
         /\ \A auth \in Customers, body \in Bodies :
              (PurchaseRequest(c, auth, body) /\ BadQuantity(body) /\ ReturnsNow(c))
              => (resp'[c] = InvalidRequest /\ StoreUnchanged)
         /\ (InPurchase(c) /\ Steps(c) /\ ~IsInteger(calls[c].req.quantity))
              => /\ StoreUnchanged
                 /\ ReturnsNow(c) => resp'[c] = InvalidRequest]_vars

\* C6: when the record insert of a purchase failed, the step that issues the
\* compensating write leaves the stored quantity at the value it had before
\* that purchase's decrement, or else the call's outcome flags the
\* inconsistency.  The branch has no output but its response, so a flagged
\* outcome is a response other than that of a rolled-back purchase.
C6_Compensation ==
    [][\A c \in Calls :
         (calls[c].pc = "compensate" /\ ReturnsNow(c))
         => \/ sweets'[calls[c].req.sweetId].quantity = calls[c].before
            \/ resp'[c] # FailedPurchase]_vars

\* C7: the first failing precondition decides: an invalid quantity gives
\* InvalidRequest also for an unknown product; an unknown product gives
\* NotFound also when the quantity could not be met; InsufficientStock is
\* returned only for a positive integer quantity on an existing product whose
\* read quantity is below the request
C7_ValidationOrder ==
    [][\A c \in Calls :
         /\ \A auth \in Customers, body \in Bodies :
              (PurchaseRequest(c, auth, body) /\ BadQuantity(body))
              => resp'[c] = InvalidRequest
         /\ (calls[c].pc = "read" /\ ReturnsNow(c)
               /\ calls[c].req.sweetId \notin DOMAIN sweets)
              => resp'[c] = NotFound
         /\ (InPurchase(c) /\ ReturnsNow(c) /\ IsInsufficient(resp'[c]))
              => /\ IsInteger(calls[c].req.quantity)
                 /\ calls[c].req.quantity > 0
                 /\ calls[c].req.sweetId \in DOMAIN sweets
                 /\ 2 * sweets[calls[c].req.sweetId].quantity < calls[c].req.quantity]_vars

\* C8: a purchase that read a quantity below its request returns
\* InsufficientStock (400) with 'available' the quantity it read, and its
\* read step changes neither stock nor purchase records
C8_InsufficientStock ==
    [][\A c \in Calls :
         (/\ calls[c].pc = "read" /\ Steps(c)
          /\ calls[c].req.sweetId \in DOMAIN sweets
          /\ resp'[c] # NotFound
          /\ calls[c].req.quantity > 2 * sweets[calls[c].req.sweetId].quantity)
         => /\ ReturnsNow(c)
            /\ resp'[c] = [status |-> 400, error |-> "Insufficient stock",
                           available |-> sweets[calls[c].req.sweetId].quantity]
            /\ StoreUnchanged]_vars

\* a purchase was refused for want of stock while another call was in flight
C8_Witness ==
    \E c, d \in Calls :
      /\ IsInsufficient(resp[c]) /\ resp[c].available < MaxStock
      /\ InPurchase(d)

\* C9: a purchase that returns InvalidRequest, NotFound or InsufficientStock
\* returns from a point before its first write, and the step that returns it
\* changes no stored quantity and no purchase record
C9_NoSideEffects ==
    [][\A c \in Calls :
         (/\ ReturnsNow(c)
          /\ ~InRestock(c)
          /\ \/ resp'[c] = InvalidRequest
             \/ resp'[c] = NotFound
             \/ IsInsufficient(resp'[c]))
         => /\ calls[c].pc \in {"idle", "read"}
            /\ StoreUnchanged]_vars

\* after a purchase emptied a shelf, a second purchase was refused for want of
\* stock and the record of the first is still the only one
C9_Witness ==
    /\ Len(purchases) = 1
    /\ \E c, d \in Calls :
         /\ IsSuccess(resp[c]) /\ resp[c].remainingStock = 0
         /\ IsInsufficient(resp[d]) /\ resp[d].available = 0

\* C10: whenever no call is in flight, the purchase records are as many as
\* the purchase calls that returned success, and each record is the one
\* returned to exactly one of them
C10_OneRecordPerSuccess ==
    NoCallInFlight
    => /\ Len(purchases) = Cardinality(Successes)
       /\ \A i \in 1..Len(purchases) :
            Cardinality({c \in Successes : resp[c].purchase = purchases[i]}) = 1

\* no call is in flight, one purchase succeeded and one failed at the insert
C10_Witness ==
    /\ NoCallInFlight
    /\ Len(purchases) >= 1
    /\ \E c \in Calls : resp[c] = FailedPurchase
\* C11: with purchases and restocks alone at work, a restock that returns
\* success for a units took the stored quantity from its value right before
\* the write to that value plus a, and returns the stored value as newQuantity
C11_RestockIncrements ==
    [][\A c \in Calls :
         (calls[c].pc = "rupdate" /\ resp'[c].status = 200 /\ nputs = 0)
         => LET id == calls[c].req.sweetId
                a == Units(calls[c].req.quantity)
            IN /\ sweets'[id].quantity = sweets[id].quantity + a
               /\ resp'[c].newQuantity = sweets'[id].quantity]_vars
\* C12: a restock by an authenticated actor who is no administrator (is_admin
\* false, or no profile row) returns Forbidden (403) at once and changes no
\* stored quantity; every restock step that changes stock belongs to a call
\* of an administrator
C12_NonAdminForbidden ==
    [][\A c \in Calls :
         /\ (calls[c].pc = "idle" /\ Steps(c))
              => \/ (resp'[c] = Forbidden /\ ReturnsNow(c) /\ StoreUnchanged)
                 \/ \A auth \in Users \cup Strangers :
                      (auth \notin DOMAIN user_profiles \/ ~user_profiles[auth].is_admin)
                      => \A body \in Bodies : ~RestockRequest(c, auth, body)
         /\ (InRestock(c) /\ Steps(c))
              => /\ calls[c].req.auth \in DOMAIN user_profiles
                 /\ user_profiles[calls[c].req.auth].is_admin]_vars

\* a restock was refused with Forbidden and an administrator's restock went through
C12_Witness ==
    \E c, d \in Calls :
      /\ resp[c] = Forbidden
      /\ resp[d].status = 200 /\ resp[d].message = "Restock successful"
\* C13: an administrator's restock whose quantity is zero, negative, missing
\* or not an integer returns InvalidRequest (400) and changes nothing; with a
\* valid quantity on an unknown product it returns NotFound (404) and changes
\* nothing
C13_RestockRejected ==
    [][\A c \in Calls :
         /\ \A auth \in Admins, body \in Bodies :
              (RestockRequest(c, auth, body) /\ BadQuantity(body))
              => (resp'[c] = InvalidRequest /\ StoreUnchanged)
         /\ (/\ InRestock(c) /\ ReturnsNow(c)
             /\ calls[c].req.sweetId \notin DOMAIN sweets
             /\ IsInteger(calls[c].req.quantity))
              => (resp'[c] = NotFound /\ StoreUnchanged)]_vars
\* C14: in every interleaving of purchase and restock calls, the stock write
\* of a purchase's decrement step never leaves the stored quantity higher
\* than it was just before that write, and the stock write of a restock never
\* leaves it lower than it was just before that write
C14_DecrementIncrement ==
    [][\A c \in Calls :
         LET id == calls[c].req.sweetId
         IN /\ (calls[c].pc = "update" /\ Steps(c))
                 => sweets'[id].quantity <= sweets[id].quantity
            /\ (calls[c].pc = "rupdate" /\ Steps(c))
                 => sweets'[id].quantity >= sweets[id].quantity]_vars
\* C15: a step of a purchase or restock addressed to product A (its reads,
\* its stock write, its compensating write) leaves the row of every other
\* product as it was, the row it holds afterwards is the one it held or the
\* row of A, and the quantity it leaves in A is the stored one or one computed
\* from the row of A it read and its own request
C15_ProductsIndependent ==
    [][\A c \in Calls :
         Steps(c) =>
           IF calls[c].pc = "idle"
           THEN sweets' = sweets
           ELSE LET A == calls[c].req.sweetId
                    q == calls[c].req.quantity
                    read == calls[c].sweet.quantity
                IN /\ \A B \in Products \ {A} : sweets'[B] = sweets[B]
                   /\ calls'[c].sweet \in {calls[c].sweet, NoSweet, Snapshot(A)}
                   /\ sweets'[A].price = sweets[A].price
                   /\ 2 * sweets'[A].quantity \in
                        {2 * sweets[A].quantity, 2 * read, 2 * read - q, 2 * read + q}]_vars

\* a purchase of one product went through, a restock of another one too, and
\* each product's stock moved by its own call
C15_Witness ==
    \E c, d \in Calls :
      /\ IsSuccess(resp[c]) /\ resp[c].purchase.sweet_id = "p1"
      /\ resp[d].status = 200 /\ resp[d].message = "Restock successful"
      /\ sweets["p1"].quantity < initial["p1"].quantity
      /\ sweets["p2"].quantity > initial["p2"].quantity
\* C16: the handler of a purchase holds the identity its token resolved to
\* and the product and quantity of its body; the purchase records change only
\* by the insert step of a purchase, which appends one record whose user_id
\* is that identity, whose sweet_id is that product and whose quantity is the
\* requested one and > 0
C16_RecordOfCaller ==
    [][/\ \A c \in Calls :
            (calls[c].pc = "idle" /\ Steps(c) /\ ~ReturnsNow(c))
            => \A auth \in Buyers, body \in Bodies :
                 PurchaseRequest(c, auth, body)
                 => /\ auth \in Users
                    /\ calls'[c].req.auth = auth
                    /\ calls'[c].req.sweetId = body.sweetId
                    /\ calls'[c].req.quantity = body.quantity
       /\ purchases' # purchases
            => \E c \in Calls :
                 LET r == purchases'[Len(purchases')]
                 IN /\ calls[c].pc = "insert" /\ Steps(c)
                    /\ purchases' = Append(purchases, r)
                    /\ r.user_id = calls[c].req.auth
                    /\ r.sweet_id = calls[c].req.sweetId
                    /\ 2 * r.quantity = calls[c].req.quantity
                    /\ r.quantity > 0]_vars

\* a customer's purchase is on record while a request without identity was
\* turned away
C16_Witness ==
    /\ Len(purchases) >= 1
    /\ purchases[1].user_id \in Customers
    /\ \E c \in Calls : resp[c].status = 401
\* C17: a purchase record is stored with total_price = the price its purchase
\* read times its quantity, and no later step (purchase, restock,
\* compensating write, price change) alters or removes a record that exists
C17_RecordsImmutable ==
    [][/\ Len(purchases') >= Len(purchases)
       /\ \A i \in 1..Len(purchases) : purchases'[i] = purchases[i]
       /\ \A c \in Calls :
            (calls[c].pc = "insert" /\ Steps(c) /\ Len(purchases') > Len(purchases))
            => LET r == purchases'[Len(purchases')]
               IN r.total_price = calls[c].sweet.price * r.quantity]_vars

\* a record's total is still that of the price read by its purchase after the
\* product's price was changed and a later restock went through
C17_Witness ==
    /\ Len(purchases) >= 1
    /\ purchases[1].total_price # sweets[purchases[1].sweet_id].price * purchases[1].quantity
    /\ \E d \in Calls : resp[d].status = 200 /\ resp[d].message = "Restock successful"
\* C18: a purchase or restock request without Authorization header, or with
\* a token that resolves to no user, returns 401 in its first step, which
\* changes no product and no purchase record; every call that goes on to read
\* or write the store carries a resolved identity
C18_Unauthenticated ==
    [][\A c \in Calls :
         /\ (calls[c].pc = "idle" /\ Steps(c))
              => \/ (ReturnsNow(c) /\ resp'[c].status = 401 /\ StoreUnchanged)
                 \/ \A auth \in {NoHeader, BadToken}, body \in Bodies :
                      /\ ~PurchaseRequest(c, auth, body)
                      /\ ~RestockRequest(c, auth, body)
         /\ (InPurchase(c) \/ InRestock(c))
              => calls[c].req.auth \in Users \cup Strangers]_vars

\* one request was turned away for its missing header, one for its token,
\* and the store is as it was at the start
C18_Witness ==
    /\ \E c, d \in Calls : resp[c] = MissingAuthorization /\ resp[d] = InvalidToken
    /\ sweets = initial /\ purchases = <<>>
\* C19: a purchase returns success only from its insert step, with the record
\* that step stored; a stock write that did not take effect returns 500, an
\* insert that stored no record returns no success, and the branch of the
\* compensating write always returns 500
C19_SuccessOnlyIfBothWrites ==
    [][\A c \in Calls :
         LET id == calls[c].req.sweetId
         IN /\ (ReturnsNow(c) /\ IsSuccess(resp'[c]))
                 => /\ calls[c].pc = "insert"
                    /\ purchases' = Append(purchases, resp'[c].purchase)
            /\ (/\ calls[c].pc = "update" /\ Steps(c)
                /\ 2 * sweets'[id].quantity
                     # 2 * calls[c].sweet.quantity - calls[c].req.quantity)
                 => (ReturnsNow(c) /\ resp'[c].status = 500)
            /\ (calls[c].pc = "insert" /\ Steps(c) /\ purchases' = purchases)
                 => (calls'[c].pc = "compensate" /\ resp'[c] = NoResponse)
            /\ (calls[c].pc = "compensate" /\ Steps(c))
                 => (ReturnsNow(c) /\ resp'[c].status = 500)]_vars

\* one purchase failed at its stock write and got a 500, another went through
C19_Witness ==
    \E c, d \in Calls : resp[c] = FailedUpdate /\ IsSuccess(resp[d])
\* C20: a compensating write that did not take effect (the stored quantity is
\* not the one the write carried) is recorded by the call: what the call
\* hands out then differs from what it hands out after a compensating write
\* that took effect.  The branch hands out nothing but its response.
C20_FailedCompensationRecorded ==
    [][\A c \in Calls :
         (/\ calls[c].pc = "compensate" /\ Steps(c)
          /\ sweets'[calls[c].req.sweetId].quantity # calls[c].sweet.quantity)
         => resp'[c] \notin {NoResponse, FailedPurchase}]_vars
\* C21: a purchase whose stock write fails returns from that step with 500
\* 'Failed to update inventory'; the step changes no stored quantity and no
\* purchase record, and the call goes to neither the insert nor the
\* compensating write
C21_FailedStockWrite ==
    [][\A c \in Calls :
         (calls[c].pc = "update" /\ Steps(c) /\ calls'[c].pc # "insert")
         => /\ calls'[c].pc = "done"
            /\ resp'[c] = FailedUpdate
            /\ StoreUnchanged]_vars

\* a purchase came back with a failed stock write and the store is as it was
C21_Witness ==
    /\ \E c \in Calls : resp[c] = FailedUpdate
    /\ sweets = initial /\ purchases = <<>> /\ nputs = 0

\* the place of a step in a call: read, stock write, insert, compensating write
Rank(pc) ==
    CASE pc = "idle" -> 0
      [] pc \in {"read", "rread"} -> 1
      [] pc \in {"update", "rupdate"} -> 2
      [] pc = "insert" -> 3
      [] pc = "compensate" -> 4
      [] OTHER -> 5

\* C22: every step of a call moves it forward: a purchase goes once through
\* read, stock write, insert and (only after an insert that stored nothing)
\* compensating write, a restock once through read and stock write, and no
\* step issues more than one write
C22_NoRetry ==
    [][\A c \in Calls :
         Steps(c) =>
           /\ Rank(calls'[c].pc) > Rank(calls[c].pc)
           /\ calls'[c].pc = "update" => calls[c].pc = "read"
           /\ calls'[c].pc = "insert" => calls[c].pc = "update"
           /\ calls'[c].pc = "compensate"
                => (calls[c].pc = "insert" /\ purchases' = purchases)
           /\ calls'[c].pc = "rupdate" => calls[c].pc = "rread"
           /\ calls'[c].pc \in {"read", "rread"} => calls[c].pc = "idle"
           /\ (sweets' = sweets \/ purchases' = purchases)]_vars

\* a purchase went through all four steps and a restock through its two
C22_Witness ==
    \E c, d \in Calls :
      /\ resp[c] = FailedPurchase
      /\ resp[d].status = 200 /\ resp[d].message = "Restock successful"
\* C23: no profile write the row policies permit turns the is_admin of a
\* user's row from false to true
C23_IsAdminProtected ==
    [][\A u \in DOMAIN profiles :
         ~profiles[u].is_admin
         => (u \in DOMAIN profiles' /\ ~profiles'[u].is_admin)]_vars

\* C24: a POST, PUT or DELETE to the sweets function with the token of a
\* user who is not an administrator is answered 403 and leaves the sweets
\* table as it was; a GET with such a token is never answered 403
C24_AdminOnlyWrites ==
    [][\A auth \in SignedIn :
         NotAdmin(auth) =>
           \A method \in Methods, id \in {"p1", UnknownId}, data \in SweetData :
             SweetsRequest(auth, method, id, data) =>
               /\ sweets' = sweets
               /\ method \in {"POST", "PUT", "DELETE"} => reply' = Forbidden
               /\ method = "GET" => reply'.status # 403]_vars

\* a request was refused for want of the administrator flag while an
\* administrator's earlier write stands
C24_Witness == reply = Forbidden /\ sweets # initial

\* C29: every purchase record references a product that exists; a purchase
\* that reaches its insert after its product was deleted stores no record,
\* goes to the compensating branch and returns 500; and a DELETE of a
\* product that has purchase records is answered with the store's error and
\* leaves the sweets table as it was
C29_RecordsReferenceProducts ==
    /\ [](\A i \in 1..Len(purchases) : purchases[i].sweet_id \in DOMAIN sweets)
    /\ [][\A c \in Calls :
            (calls[c].pc = "insert" /\ Steps(c)
               /\ calls[c].req.sweetId \notin DOMAIN sweets)
            => (purchases' = purchases /\ calls'[c].pc = "compensate")]_vars
    /\ [][\A c \in Calls :
            (calls[c].pc = "compensate" /\ Steps(c))
            => (purchases' = purchases /\ resp'[c] = FailedPurchase)]_vars
    /\ [][\A auth \in Admins :
            (Referenced("p1") /\ SweetsRequest(auth, "DELETE", "p1", NotJson))
            => (sweets' = sweets /\ reply' = StoreError)]_vars

\* the product is gone, a purchase of it came back with 500 and no record
\* is stored
C29_Witness ==
    /\ "p1" \notin DOMAIN sweets
    /\ reply = Deleted
    /\ purchases = <<>>
    /\ \E c \in Calls : resp[c] = FailedPurchase

C30_OneRequestInFlight ==
    /\ [](Cardinality(InFlight) <= 1)
    /\ [](card.purchasing <=> InFlight # {})
    /\ (card.purchasing ~> ~card.purchasing)

\* a second run is in flight after the first one ended
C30_Witness ==
    /\ card.purchasing
    /\ \E k, l \in Calls : card.runs[k].pc = "done" /\ card.runs[l].pc = "fetch"

\* C26: a restock request with the token of a user who is not an
\* administrator returns 403 whatever its body, changing nothing; with an
\* administrator's token a request whose id is missing or whose quantity is
\* missing, not positive or not an integer returns InvalidRequest, and a
\* restock that returns NotFound carried a valid quantity
C26_RestockCheckOrder ==
    [][\A c \in Calls :
         /\ (calls[c].pc = "idle" /\ Steps(c)) =>
              \A auth \in SignedIn, body \in Bodies :
                RestockRequest(c, auth, body) =>
                  /\ NotAdmin(auth) => (resp'[c] = Forbidden /\ StoreUnchanged)
                  /\ (~NotAdmin(auth) /\ (body.sweetId = NoId \/ BadQuantity(body)))
                       => resp'[c] = InvalidRequest
         /\ (InRestock(c) /\ ReturnsNow(c) /\ resp'[c] = NotFound)
              => (IsInteger(calls[c].req.quantity) /\ calls[c].req.quantity > 0)]_vars

\* C27: a compensating write that takes effect leaves the stored quantity
\* at what it was just before that write plus the quantity the call had
\* taken off: it gives back the call's own decrement and leaves what other
\* calls wrote since the call's read in place
C27_CompensationKeepsOthers ==
    [][\A c \in Calls :
         LET id == calls[c].req.sweetId
         IN (/\ calls[c].pc = "compensate" /\ Steps(c)
             /\ nputs = 0 /\ nputs' = 0
             /\ id \in DOMAIN sweets
             /\ sweets'[id].quantity = calls[c].sweet.quantity
             /\ calls[c].before = calls[c].sweet.quantity)
            => sweets'[id].quantity
                 = sweets[id].quantity + Units(calls[c].req.quantity)]_vars

\* C28: when no call is in flight, no PUT was made and no call came back
\* with a 500, the stored quantity of p1 is its initial quantity plus one per
\* successful restock minus the quantities of its purchase records (every
\* request of this specification is for one unit of p1)
C28_StockConserved ==
    LET restocked == Cardinality({c \in Calls :
                        resp[c].status = 200 /\ resp[c].message = "Restock successful"})
        bought == Len(purchases)
    IN (/\ NoCallInFlight
        /\ nputs = 0
        /\ \A c \in Calls : resp[c].status # 500)
       => sweets["p1"].quantity = initial["p1"].quantity + restocked - bought

====
